---------------------------- MODULE Spec2Model ----------------------------
(***************************************************************************)
(* Model of cloud_iot_mqtt.py: the Device class (backoff state, connect,   *)
(* the paho callbacks), the managed_device context manager and main.       *)
(*                                                                         *)
(* Two threads exist in the program: the foreground thread, which runs     *)
(* main / managed_device / Device.connect, and paho's network thread       *)
(* (started by loop_start), which delivers the callbacks.  Device.connect  *)
(* is modelled statement by statement (its reads and writes of the shared  *)
(* fields are separate steps, and it sleeps in the middle), so callbacks   *)
(* interleave with it.                                                     *)
(*                                                                         *)
(* Spec          : a Device driven through its public methods (any number  *)
(*                 of connect calls, on_connect and on_disconnect          *)
(*                 delivered by the network thread once a broker connect   *)
(*                 has been issued).                                       *)
(* SpecCallbacks : Spec with on_publish, on_subscribe and on_message       *)
(*                 delivered as well.                                      *)
(* SpecSession   : one run of main(), lines 338-391.                       *)
(* SpecIdentity  : the client-id round trip of lines 344-349.              *)
(* SpecJwt       : one call of create_jwt, lines 43-57.                    *)
(***************************************************************************)
EXTENDS Integers, Sequences, FiniteSets, TLC

VARIABLES
    device,                \* the Device's identity fields (lines 77-80)
    should_backoff,        \* Device._should_backoff
    min_backoff_time,      \* Device._min_backoff_time
    pc,                    \* position of the foreground thread inside Device.connect
    delay_base,            \* the _min_backoff_time read at line 148 (pre-jitter delay)
    delay_ms,              \* local `delay` of line 148, in milliseconds
    tmp,                   \* the value read by the `*=` of line 150
    connect_result,        \* what the caller of Device.connect observed last
    net_pc,                \* position of the network thread inside on_connect
    net_rc,                \* the rc argument of the on_connect being delivered
    loop_running,          \* paho's network thread is running (loop_start .. loop_stop)
    calls,                 \* the calls made on the paho client, in order
    client_connects,       \* number of self._client.connect calls issued
    sleeps,                \* number of time.sleep(delay) calls made by Device.connect
    ncalls,                \* number of Device.connect calls made through the API
    conn_state,            \* history: Disconnected / Connecting / Connected
    call_state,            \* history: conn_state when the running connect call was made
    outcome,               \* history: which way the last connect call went
    success_seen,          \* history: an on_connect with rc = 0 has been delivered
    doubled_since_success, \* history: line 150 has written since the last rc = 0 on_connect
    hist,                  \* history: the last four callback outcomes
    mpc,                   \* position of main / managed_device
    args,                  \* the parsed command line (lines 339, 344-347)
    i,                     \* loop variable of line 374
    net_payload,           \* local `payload` of on_message (line 220)
    issued_since_on_connect, \* history: broker connects issued since on_connect last returned
    clock,                 \* the wall clock read by utcnow(), in ticks
    jwt_pc,                \* position inside create_jwt
    token                  \* the claims dictionary built by create_jwt (lines 48-52)

vars == <<device, should_backoff, min_backoff_time, pc, delay_base, delay_ms, tmp,
          connect_result, net_pc, net_rc, loop_running, calls, client_connects,
          sleeps, ncalls, conn_state, call_state, outcome, success_seen,
          doubled_since_success, hist, mpc, args, i, net_payload,
          issued_since_on_connect, clock, jwt_pc, token>>

device_vars == <<device>>
backoff_vars == <<should_backoff, min_backoff_time>>
local_vars == <<delay_base, delay_ms, tmp>>
net_vars == <<net_pc, net_rc>>
hist_vars == <<conn_state, success_seen, doubled_since_success, hist>>
main_vars == <<mpc, args, i>>
call_vars == <<call_state, outcome>>
jwt_vars == <<clock, jwt_pc, token>>
aux_vars == <<net_payload, issued_since_on_connect, jwt_vars>>

---------------------------------------------------------------------------
(* Bounds of the model *)

\* Device.connect calls made through the API in Spec.
MaxCalls == 8

\* Largest --num_messages explored in SpecSession.
MaxMessages == 3

\* Resolution of the wall clock in SpecJwt: ticks in one second.
TicksPerSecond == 2

\* Last tick of the wall clock explored in SpecJwt.
MaxClockTicks == 5

---------------------------------------------------------------------------
(* Program constants *)

\* Device.MAX_BACKOFF_TIME, line 73.
MAX_BACKOFF_TIME == 32

\* datetime.timedelta(minutes=60), line 50.
TokenLifetimeMinutes == 60

\* Upper end of random.randint(0, 1000), line 148 (inclusive).
MaxJitter == 1000

\* Jitter drawn from a range twice as wide.
JitterValuesTooWide == {0, 2 * MaxJitter}

\* The jitter values explored: both ends of randint's range and one inside.
JitterValues == {0, MaxJitter \div 2, MaxJitter}

\* Result codes delivered to on_connect: 0 is CONNACK accepted, 5 is "not authorised".
ConnackCodes == {0, 5}

\* Result codes delivered to on_disconnect: 0 after disconnect(), 7 connection lost.
DisconnectCodes == {0, 7}

---------------------------------------------------------------------------
(* Strings are sequences of characters; a literal of the source that holds no
   '/' is one element. *)

Slash == "/"

\* str.split("/"), line 101.
RECURSIVE split(_)
split(s) ==
    IF \A k \in 1..Len(s) : s[k] # Slash
    THEN <<s>>
    ELSE LET k == CHOOSE k \in 1..Len(s) :
                    s[k] = Slash /\ \A j \in 1..(k - 1) : s[j] # Slash
         IN <<SubSeq(s, 1, k - 1)>> \o split(SubSeq(s, k + 1, Len(s)))

\* The slice [0::2]: the elements at the even 0-based indices.
even_elements(parts) ==
    [k \in 1..((Len(parts) + 1) \div 2) |-> parts[2 * k - 1]]

\* The slice [1::2] of line 101: elements at the odd 0-based indices.
odd_elements(parts) ==
    [k \in 1..(Len(parts) \div 2) |-> parts[2 * k]]

\* Device.__init__, lines 77-80: the four identity fields.
new_device(project_id, cloud_region, registry_id, device_id) ==
    [project_id |-> project_id, cloud_region |-> cloud_region,
     registry_id |-> registry_id, device_id |-> device_id]

\* Device.client_id, lines 103-110 (and the same f-string in main, 344-347).
client_id(d) ==
    <<"projects", Slash>> \o d.project_id \o <<Slash, "locations", Slash>>
        \o d.cloud_region \o <<Slash, "registries", Slash>> \o d.registry_id
        \o <<Slash, "devices", Slash>> \o d.device_id

\* Device.create_from_client_id, lines 94-101: cls(*client_id.split("/")[1::2]).
\* cls takes exactly four positional arguments: any other number raises TypeError.
create_raises(cid) == Len(odd_elements(split(cid))) # 4

create_from_client_id(cid) ==
    LET a == odd_elements(split(cid))
    IN new_device(a[1], a[2], a[3], a[4])

\* The identity fields before Device.__init__ has run.
no_device == new_device(<<>>, <<>>, <<>>, <<>>)

\* The claims dictionary before create_jwt has filled it.
no_token == [iat |-> 0, exp |-> 0, aud |-> <<>>]

\* One call made on the paho client (self._client.<op>(...), lines 151-180).
client_call(op, topic, payload, qos) ==
    [op |-> op, topic |-> topic, payload |-> payload, qos |-> qos]

---------------------------------------------------------------------------
(* History kept for the properties: not program state *)

\* The last four callback outcomes, oldest first.
push(h, e) == IF Len(h) < 4 THEN Append(h, e) ELSE Append(Tail(h), e)

---------------------------------------------------------------------------
(* Device.connect, lines 138-154, on the foreground thread *)

\* A give-up test with the wrong ceiling (twice the maximum).
give_up_wrong_ceiling(m) == m > 2 * MAX_BACKOFF_TIME

\* Line 142: the give-up test.
give_up(m) == m > MAX_BACKOFF_TIME

\* Lines 138-139: the call is made through the API (Spec only).
connect_call ==
    /\ mpc = "api"
    /\ pc = "idle"
    /\ ncalls < MaxCalls
    /\ pc' = "check_backoff"
    /\ ncalls' = ncalls + 1
    /\ call_state' = conn_state
    /\ outcome' = "running"
    /\ connect_result' = "none"
    /\ UNCHANGED <<aux_vars, device_vars, backoff_vars, local_vars, net_vars, loop_running,
                   calls, client_connects, sleeps, hist_vars, main_vars>>

\* Line 140: if self._should_backoff; with no backoff required the method
\* falls off its end and returns None (lines 141-154 are all inside the if).
connect_check_backoff ==
    /\ pc = "check_backoff"
    /\ IF should_backoff
       THEN pc' = "check_giveup" /\ UNCHANGED <<connect_result, outcome>>
       ELSE pc' = "idle" /\ connect_result' = "returned" /\ outcome' = "no_backoff"
    /\ UNCHANGED <<aux_vars, device_vars, backoff_vars, local_vars, net_vars, loop_running,
                   calls, client_connects, sleeps, ncalls, call_state, hist_vars,
                   main_vars>>

\* Lines 142-147: log the error and return None when the backoff is exhausted.
connect_check_giveup ==
    /\ pc = "check_giveup"
    /\ IF give_up(min_backoff_time)
       THEN pc' = "idle" /\ connect_result' = "returned" /\ outcome' = "gave_up"
       ELSE pc' = "sleep" /\ UNCHANGED <<connect_result, outcome>>
    /\ UNCHANGED <<aux_vars, device_vars, backoff_vars, local_vars, net_vars, loop_running,
                   calls, client_connects, sleeps, ncalls, call_state, hist_vars,
                   main_vars>>

\* Lines 148-149: delay = min + randint(0, 1000) / 1000.0; time.sleep(delay).
connect_sleep ==
    /\ pc = "sleep"
    /\ \E jitter \in JitterValues :
          /\ delay_base' = min_backoff_time
          /\ delay_ms' = min_backoff_time * 1000 + jitter
    /\ sleeps' = sleeps + 1
    /\ pc' = "double_read"
    /\ UNCHANGED <<aux_vars, device_vars, backoff_vars, tmp, connect_result, net_vars,
                   loop_running, calls, client_connects, ncalls, call_vars,
                   hist_vars, main_vars>>

\* Line 150, first half of `self._min_backoff_time *= 2`: the read.
connect_double_read ==
    /\ pc = "double_read"
    /\ tmp' = min_backoff_time
    /\ pc' = "double_write"
    /\ UNCHANGED <<aux_vars, device_vars, backoff_vars, delay_base, delay_ms, connect_result,
                   net_vars, loop_running, calls, client_connects, sleeps, ncalls,
                   call_vars, hist_vars, main_vars>>

\* Line 150, second half: the write of the doubled value.
connect_double_write ==
    /\ pc = "double_write"
    /\ min_backoff_time' = tmp * 2
    /\ doubled_since_success' = TRUE
    /\ pc' = "client_connect"
    /\ UNCHANGED <<aux_vars, device_vars, should_backoff, local_vars, connect_result, net_vars,
                   loop_running, calls, client_connects, sleeps, ncalls, call_vars,
                   conn_state, success_seen, hist, main_vars>>

\* Lines 151-154: self._client.connect(host, port).  paho's connect opens the
\* socket synchronously: it returns, or raises OSError when the broker cannot
\* be reached, and the exception leaves Device.connect.  The locals die with
\* the frame.
connect_client_connect ==
    /\ pc = "client_connect"
    /\ calls' = Append(calls, client_call("connect", <<>>, <<>>, 0))
    /\ client_connects' = client_connects + 1
    /\ \E ok \in BOOLEAN :
          /\ connect_result' = IF ok THEN "returned" ELSE "raised"
          /\ conn_state' = IF ok THEN "Connecting" ELSE "Disconnected"
    /\ pc' = "idle"
    /\ outcome' = "issued"
    /\ delay_base' = 0 /\ delay_ms' = 0 /\ tmp' = 0
    /\ issued_since_on_connect' = issued_since_on_connect + 1
    /\ UNCHANGED <<net_payload, jwt_vars, device_vars, backoff_vars, net_vars,
                   loop_running, sleeps, ncalls,
                   call_state, success_seen, doubled_since_success, hist, main_vars>>

---------------------------------------------------------------------------
(* The callbacks, lines 182-200, on paho's network thread.  The thread delivers
   them one at a time, and only once a broker connect has been issued. *)

\* The process is alive: main has neither finished nor died of an exception
\* (paho's network thread is a daemon thread and ends with the process).
alive == mpc \notin {"done", "failed"}

net_ready == alive /\ loop_running /\ client_connects > 0 /\ net_pc = "idle"

\* Lines 186-189: on_connect logs rc and stops backing off, whatever rc is.
on_connect_begin ==
    /\ net_ready
    /\ \E rc \in ConnackCodes : net_rc' = rc
    /\ should_backoff' = FALSE
    /\ net_pc' = "on_connect_190"
    /\ UNCHANGED <<aux_vars, device_vars, min_backoff_time, pc, local_vars, connect_result,
                   loop_running, calls, client_connects, sleeps, ncalls, call_vars,
                   hist_vars, main_vars>>

\* An on_connect that forgets line 190 and keeps the backoff time.
on_connect_end_keeps_time ==
    /\ alive
    /\ net_pc = "on_connect_190"
    /\ net_pc' = "idle"
    /\ net_rc' = 0
    /\ IF net_rc = 0
       THEN /\ conn_state' = "Connected"
            /\ success_seen' = TRUE
            /\ doubled_since_success' = FALSE
            /\ hist' = push(hist, "succeed")
       ELSE /\ conn_state' = "Disconnected"
            /\ hist' = push(hist, "fail")
            /\ UNCHANGED <<success_seen, doubled_since_success>>
    /\ issued_since_on_connect' = 0
    /\ UNCHANGED <<net_payload, jwt_vars, device_vars, backoff_vars, pc, local_vars,
                   connect_result, loop_running, calls, client_connects, sleeps,
                   ncalls, call_vars, main_vars>>

\* Line 190: on_connect resets the backoff time, whatever rc is.
on_connect_end ==
    /\ alive
    /\ net_pc = "on_connect_190"
    /\ min_backoff_time' = 1
    /\ net_pc' = "idle"
    /\ net_rc' = 0
    /\ IF net_rc = 0
       THEN /\ conn_state' = "Connected"
            /\ success_seen' = TRUE
            /\ doubled_since_success' = FALSE
            /\ hist' = push(hist, "succeed")
       ELSE /\ conn_state' = "Disconnected"
            /\ hist' = push(hist, "fail")
            /\ UNCHANGED <<success_seen, doubled_since_success>>
    /\ issued_since_on_connect' = 0
    /\ UNCHANGED <<net_payload, jwt_vars, device_vars, should_backoff, pc, local_vars,
                   connect_result, loop_running, calls, client_connects, sleeps,
                   ncalls, call_vars, main_vars>>

\* An on_disconnect that also restarts the backoff time at 1.
on_disconnect_resets_time ==
    /\ net_ready
    /\ should_backoff' = TRUE
    /\ min_backoff_time' = 1
    /\ conn_state' = "Disconnected"
    /\ hist' = push(hist, "fail")
    /\ UNCHANGED <<aux_vars, device_vars, pc, local_vars, connect_result,
                   net_vars, loop_running, calls, client_connects, sleeps, ncalls,
                   call_vars, success_seen, doubled_since_success, main_vars>>

\* Lines 192-200: on_disconnect logs rc and asks for backoff.
on_disconnect ==
    /\ net_ready
    /\ \E rc \in DisconnectCodes : TRUE
    /\ should_backoff' = TRUE
    /\ conn_state' = "Disconnected"
    /\ hist' = push(hist, "fail")
    /\ UNCHANGED <<aux_vars, device_vars, min_backoff_time, pc, local_vars, connect_result,
                   net_vars, loop_running, calls, client_connects, sleeps, ncalls,
                   call_vars, success_seen, doubled_since_success, main_vars>>

---------------------------------------------------------------------------
(* The callbacks that only log, lines 202-235.  Each is delivered in two steps
   (entered, returned) so that a delivery is a visible step of the network
   thread.  An exception that leaves a callback propagates into paho's loop
   and ends the network thread: no callback is delivered after it. *)

\* The granted_qos tuples of a SUBACK: QoS 1 granted, or 128 (refused).
GrantedQos == {<<1>>, <<128>>}

\* The byte that is no valid UTF-8 (0xff).
BadByte == "0xff"

\* message.payload values delivered: empty, a JSON document, a truncated
\* document, and bytes that are not UTF-8.
Payloads == {<<>>, <<"{", "}">>, <<"{">>, <<BadByte>>}

\* Line 220: bytes.decode("utf-8") raises UnicodeDecodeError on an invalid byte.
decode_raises(payload) == \E k \in 1..Len(payload) : payload[k] = BadByte

\* An emptiness test that is never true.
never_empty(payload) == FALSE

\* Line 229: `not payload`.
is_empty(payload) == Len(payload) = 0

\* Line 234: json.loads raises JSONDecodeError unless the text is a document;
\* over the characters used here a document is "{}" or a run of digits.
json_loads_raises(payload) ==
    ~ \/ payload = <<"{", "}">>
      \/ Len(payload) > 0 /\ \A k \in 1..Len(payload) : payload[k] = "1"

\* Lines 202-206: on_publish is entered.
on_publish_begin ==
    /\ net_ready
    /\ net_pc' = "on_publish_206"
    /\ UNCHANGED <<aux_vars, device_vars, backoff_vars, pc, local_vars, connect_result,
                   net_rc, loop_running, calls, client_connects, sleeps, ncalls,
                   call_vars, hist_vars, main_vars>>

\* Line 206: on_publish logs and returns.
on_publish_end ==
    /\ alive
    /\ net_pc = "on_publish_206"
    /\ net_pc' = "idle"
    /\ UNCHANGED <<aux_vars, device_vars, backoff_vars, pc, local_vars, connect_result,
                   net_rc, loop_running, calls, client_connects, sleeps, ncalls,
                   call_vars, hist_vars, main_vars>>

\* Lines 208-212: on_subscribe is entered and logs granted_qos.
on_subscribe_begin ==
    /\ net_ready
    /\ \E granted_qos \in GrantedQos : TRUE
    /\ net_pc' = "on_subscribe_213"
    /\ UNCHANGED <<aux_vars, device_vars, backoff_vars, pc, local_vars, connect_result,
                   net_rc, loop_running, calls, client_connects, sleeps, ncalls,
                   call_vars, hist_vars, main_vars>>

\* Lines 213-214: a refused subscription is logged; on_subscribe returns.
on_subscribe_end ==
    /\ alive
    /\ net_pc = "on_subscribe_213"
    /\ net_pc' = "idle"
    /\ UNCHANGED <<aux_vars, device_vars, backoff_vars, pc, local_vars, connect_result,
                   net_rc, loop_running, calls, client_connects, sleeps, ncalls,
                   call_vars, hist_vars, main_vars>>

\* Lines 216-229: on_message decodes the payload, logs it and tests it.
on_message_begin ==
    /\ net_ready
    /\ \E payload \in Payloads :
          IF decode_raises(payload)
          THEN net_pc' = "crashed" /\ UNCHANGED net_payload
          ELSE /\ net_payload' = payload
               /\ net_pc' = IF is_empty(payload) THEN "on_message_230"
                                                 ELSE "on_message_234"
    /\ UNCHANGED <<issued_since_on_connect, jwt_vars, device_vars, backoff_vars, pc,
                   local_vars, connect_result, net_rc, loop_running, calls,
                   client_connects, sleeps, ncalls, call_vars, hist_vars, main_vars>>

\* Lines 230-231: nothing to parse; log and return.
on_message_return ==
    /\ alive
    /\ net_pc = "on_message_230"
    /\ net_pc' = "idle"
    /\ net_payload' = <<>>
    /\ UNCHANGED <<issued_since_on_connect, jwt_vars, device_vars, backoff_vars, pc,
                   local_vars, connect_result, net_rc, loop_running, calls,
                   client_connects, sleeps, ncalls, call_vars, hist_vars, main_vars>>

\* Lines 234-235: data = json.loads(payload), outside any try; log and return.
on_message_loads ==
    /\ alive
    /\ net_pc = "on_message_234"
    /\ net_pc' = IF json_loads_raises(net_payload) THEN "crashed" ELSE "idle"
    /\ net_payload' = <<>>
    /\ UNCHANGED <<issued_since_on_connect, jwt_vars, device_vars, backoff_vars, pc,
                   local_vars, connect_result, net_rc, loop_running, calls,
                   client_connects, sleeps, ncalls, call_vars, hist_vars, main_vars>>

---------------------------------------------------------------------------
(* Spec: a Device used through its API *)

\* A device as Device.__init__ leaves it, lines 75-92.
TheDevice == new_device(<<"p">>, <<"us-central1">>, <<"r">>, <<"d">>)

TheArgs == [project_id |-> <<"p">>, cloud_region |-> <<"us-central1">>,
            registry_id |-> <<"r">>, device_id |-> <<"d">>, num_messages |-> 0]

Init ==
    /\ device = TheDevice
    /\ should_backoff = TRUE
    /\ min_backoff_time = 1
    /\ pc = "idle"
    /\ delay_base = 0 /\ delay_ms = 0 /\ tmp = 0
    /\ connect_result = "none"
    /\ net_pc = "idle" /\ net_rc = 0
    /\ loop_running = TRUE
    /\ calls = <<>>
    /\ client_connects = 0
    /\ sleeps = 0
    /\ ncalls = 0
    /\ conn_state = "Disconnected"
    /\ call_state = "Disconnected"
    /\ outcome = "none"
    /\ success_seen = FALSE
    /\ doubled_since_success = FALSE
    /\ hist = <<>>
    /\ mpc = "api"
    /\ args = TheArgs
    /\ i = 0
    /\ net_payload = <<>>
    /\ issued_since_on_connect = 0
    /\ clock = 0 /\ jwt_pc = "done" /\ token = no_token

Next ==
    \/ connect_call
    \/ connect_check_backoff
    \/ connect_check_giveup
    \/ connect_sleep
    \/ connect_double_read
    \/ connect_double_write
    \/ connect_client_connect
    \/ on_connect_begin
    \/ on_connect_end
    \/ on_disconnect

Spec == Init /\ [][Next]_vars

\* SpecCallbacks: the same Device with every callback delivered.
NextCallbacks ==
    \/ Next
    \/ on_publish_begin
    \/ on_publish_end
    \/ on_subscribe_begin
    \/ on_subscribe_end
    \/ on_message_begin
    \/ on_message_return
    \/ on_message_loads

SpecCallbacks == Init /\ [][NextCallbacks]_vars

---------------------------------------------------------------------------
(* SpecSession: main, lines 338-391, and managed_device, lines 314-335 *)

\* The identifiers tried on the command line.  Cloud IoT identifiers hold no
\* '/', and main receives them validated.
ProjectIds == {<<"p">>}
CloudRegions == {<<"us-central1">>}
RegistryIds == {<<"r">>, <<"r", "1">>}
DeviceIds == {<<"d">>, <<"d", "1">>}

\* Lines 358, 361, 364: the topics main derives from args.device_id.
mqtt_telemetry_topic(a) == <<Slash, "devices", Slash>> \o a.device_id \o <<Slash, "events">>
mqtt_config_topic(a) == <<Slash, "devices", Slash>> \o a.device_id \o <<Slash, "config">>
mqtt_commands_topic(a) ==
    <<Slash, "devices", Slash>> \o a.device_id \o <<Slash, "commands", Slash, "#">>

\* Line 384: the state topic, derived from the Device's device_id.
mqtt_state_topic(d) == <<Slash, "devices", Slash>> \o d.device_id \o <<Slash, "state">>

\* A payload numbered from 0 instead of 1.
telemetry_payload_from_zero(d, k) ==
    d.registry_id \o <<Slash>> \o d.device_id \o <<"-payload-", ToString(k - 1)>>

\* Line 375: f"{device.registry_id}/{device.device_id}-payload-{i}".
telemetry_payload(d, k) ==
    d.registry_id \o <<Slash>> \o d.device_id \o <<"-payload-", ToString(k)>>

\* Line 374: range(1, args.num_messages + 1) still has the value k to visit.
in_range(k, n) == k < n + 1

InitSession ==
    /\ args \in [project_id : ProjectIds, cloud_region : CloudRegions,
                  registry_id : RegistryIds, device_id : DeviceIds,
                  num_messages : (-1)..MaxMessages]
    /\ device = no_device
    /\ should_backoff = FALSE
    /\ min_backoff_time = 0
    /\ pc = "idle"
    /\ delay_base = 0 /\ delay_ms = 0 /\ tmp = 0
    /\ connect_result = "none"
    /\ net_pc = "idle" /\ net_rc = 0
    /\ loop_running = FALSE
    /\ calls = <<>>
    /\ client_connects = 0
    /\ sleeps = 0
    /\ ncalls = 0
    /\ conn_state = "Disconnected"
    /\ call_state = "Disconnected"
    /\ outcome = "none"
    /\ success_seen = FALSE
    /\ doubled_since_success = FALSE
    /\ hist = <<>>
    /\ mpc = "start"
    /\ i = 0
    /\ net_payload = <<>>
    /\ issued_since_on_connect = 0
    /\ clock = 0 /\ jwt_pc = "done" /\ token = no_token

\* Lines 344-354 and 320-327: main builds client_id, managed_device parses it
\* back into a Device (Device.__init__ sets the backoff fields, lines 89-92),
\* then authenticate and tls_set configure the client.
managed_device_enter ==
    /\ mpc = "start"
    /\ LET cid == client_id(args)
       IN IF create_raises(cid)
          THEN mpc' = "failed" /\ UNCHANGED <<device, should_backoff, min_backoff_time>>
          ELSE /\ device' = create_from_client_id(cid)
               /\ should_backoff' = TRUE
               /\ min_backoff_time' = 1
               /\ mpc' = "connect"
    /\ UNCHANGED <<aux_vars, pc, local_vars, connect_result, net_vars, loop_running, calls,
                   client_connects, sleeps, ncalls, call_vars, hist_vars, args, i>>

\* Lines 328-331: managed_device calls device.connect.
managed_device_connect ==
    /\ mpc = "connect"
    /\ pc = "idle"
    /\ mpc' = "connecting"
    /\ pc' = "check_backoff"
    /\ call_state' = conn_state
    /\ outcome' = "running"
    /\ connect_result' = "none"
    /\ UNCHANGED <<aux_vars, device_vars, backoff_vars, local_vars, net_vars, loop_running,
                   calls, client_connects, sleeps, ncalls, hist_vars, args, i>>

\* An exception raised by device.connect leaves managed_device and main:
\* nothing catches it.
managed_device_connect_raises ==
    /\ mpc = "connecting"
    /\ pc = "idle"
    /\ connect_result = "raised"
    /\ mpc' = "failed"
    /\ UNCHANGED <<aux_vars, device_vars, backoff_vars, pc, local_vars, connect_result, net_vars,
                   loop_running, calls, client_connects, sleeps, ncalls, call_vars,
                   hist_vars, args, i>>

\* Lines 332-333: device.connect returned (its return value is not looked at);
\* loop_start starts the network thread and the device is yielded to main.
managed_device_loop_start ==
    /\ mpc = "connecting"
    /\ pc = "idle"
    /\ connect_result = "returned"
    /\ loop_running' = TRUE
    /\ calls' = Append(calls, client_call("loop_start", <<>>, <<>>, 0))
    /\ mpc' = "subscribe_config"
    /\ UNCHANGED <<aux_vars, device_vars, backoff_vars, pc, local_vars, connect_result, net_vars,
                   client_connects, sleeps, ncalls, call_vars, hist_vars, args, i>>

\* Line 368: device.subscribe(mqtt_config_topic, qos=1).
main_subscribe_config ==
    /\ mpc = "subscribe_config"
    /\ calls' = Append(calls, client_call("subscribe", mqtt_config_topic(args), <<>>, 1))
    /\ mpc' = "subscribe_commands"
    /\ UNCHANGED <<aux_vars, device_vars, backoff_vars, pc, local_vars, connect_result, net_vars,
                   loop_running, client_connects, sleeps, ncalls, call_vars,
                   hist_vars, args, i>>

\* Lines 371 and 374: device.subscribe(mqtt_commands_topic, qos=1); the for
\* loop starts at 1.
main_subscribe_commands ==
    /\ mpc = "subscribe_commands"
    /\ calls' = Append(calls, client_call("subscribe", mqtt_commands_topic(args), <<>>, 1))
    /\ i' = 1
    /\ mpc' = "publish_loop"
    /\ UNCHANGED <<aux_vars, device_vars, backoff_vars, pc, local_vars, connect_result, net_vars,
                   loop_running, client_connects, sleeps, ncalls, call_vars,
                   hist_vars, args>>

\* Lines 374-381: one iteration of the loop: publish payload i with qos 1,
\* then time.sleep(randint(1, 4)).
main_publish ==
    /\ mpc = "publish_loop"
    /\ in_range(i, args.num_messages)
    /\ calls' = Append(calls, client_call("publish", mqtt_telemetry_topic(args),
                                          telemetry_payload(device, i), 1))
    /\ i' = i + 1
    /\ UNCHANGED <<aux_vars, device_vars, backoff_vars, pc, local_vars, connect_result, net_vars,
                   loop_running, client_connects, sleeps, ncalls, call_vars,
                   hist_vars, mpc, args>>

\* A state publish that asks for qos 1 like the telemetry publishes.
main_publish_state_qos1 ==
    /\ mpc = "publish_loop"
    /\ ~in_range(i, args.num_messages)
    /\ calls' = Append(calls, client_call("publish", mqtt_state_topic(device),
                                          <<"Fake state">>, 1))
    /\ mpc' = "disconnect"
    /\ UNCHANGED <<aux_vars, device_vars, backoff_vars, pc, local_vars, connect_result, net_vars,
                   loop_running, client_connects, sleeps, ncalls, call_vars,
                   hist_vars, args, i>>

\* Lines 383-389: the loop is over; device.publish(mqtt_state_topic, "Fake state")
\* with the default qos of Device.publish, 0 (line 159).
main_publish_state ==
    /\ mpc = "publish_loop"
    /\ ~in_range(i, args.num_messages)
    /\ calls' = Append(calls, client_call("publish", mqtt_state_topic(device),
                                          <<"Fake state">>, 0))
    /\ mpc' = "disconnect"
    /\ UNCHANGED <<aux_vars, device_vars, backoff_vars, pc, local_vars, connect_result, net_vars,
                   loop_running, client_connects, sleeps, ncalls, call_vars,
                   hist_vars, args, i>>

\* An exception raised inside the with-block (KeyboardInterrupt during the
\* time.sleep of line 381, an error raised by subscribe or publish) is thrown
\* into managed_device at its yield, line 333.  The yield is not inside a
\* try/finally, so the exception leaves managed_device and then main.
main_body_raises ==
    /\ mpc \in {"subscribe_config", "subscribe_commands", "publish_loop"}
    /\ mpc' = "failed"
    /\ UNCHANGED <<aux_vars, device_vars, backoff_vars, pc, local_vars, connect_result, net_vars,
                   loop_running, calls, client_connects, sleeps, ncalls, call_vars,
                   hist_vars, args, i>>

\* Line 334: the with-block ended normally; device.disconnect().
managed_device_disconnect ==
    /\ mpc = "disconnect"
    /\ calls' = Append(calls, client_call("disconnect", <<>>, <<>>, 0))
    /\ mpc' = "loop_stop"
    /\ UNCHANGED <<aux_vars, device_vars, backoff_vars, pc, local_vars, connect_result, net_vars,
                   loop_running, client_connects, sleeps, ncalls, call_vars,
                   hist_vars, args, i>>

\* Lines 335 and 391: device.loop_stop() joins the network thread (a callback
\* that is running finishes first); main logs success and returns.
managed_device_loop_stop ==
    /\ mpc = "loop_stop"
    /\ net_pc = "idle"
    /\ loop_running' = FALSE
    /\ calls' = Append(calls, client_call("loop_stop", <<>>, <<>>, 0))
    /\ mpc' = "done"
    /\ UNCHANGED <<aux_vars, device_vars, backoff_vars, pc, local_vars, connect_result, net_vars,
                   client_connects, sleeps, ncalls, call_vars, hist_vars, args, i>>

NextSession ==
    \/ managed_device_enter
    \/ managed_device_connect
    \/ connect_check_backoff
    \/ connect_check_giveup
    \/ connect_sleep
    \/ connect_double_read
    \/ connect_double_write
    \/ connect_client_connect
    \/ managed_device_connect_raises
    \/ managed_device_loop_start
    \/ main_subscribe_config
    \/ main_subscribe_commands
    \/ main_publish
    \/ main_publish_state
    \/ main_body_raises
    \/ managed_device_disconnect
    \/ managed_device_loop_stop
    \/ on_connect_begin
    \/ on_connect_end
    \/ on_disconnect

SpecSession == InitSession /\ [][NextSession]_vars

---------------------------------------------------------------------------
(* SpecJwt: one call of create_jwt(project_id, private_key_file, algorithm),
   lines 43-57, made by main at line 354.  The wall clock advances on its own
   while the function runs.  Datetimes are counted in ticks; jwt.encode writes
   them into the token as whole seconds (calendar.timegm of the time tuple). *)

\* The project_id arguments tried.
JwtProjects == {<<"p">>, <<"q">>}

non_jwt_vars == <<device_vars, backoff_vars, pc, local_vars, connect_result, net_vars,
                  loop_running, calls, client_connects, sleeps, ncalls, call_vars,
                  hist_vars, main_vars, net_payload, issued_since_on_connect>>

InitJwt ==
    /\ device = no_device
    /\ should_backoff = TRUE
    /\ min_backoff_time = 1
    /\ pc = "idle"
    /\ delay_base = 0 /\ delay_ms = 0 /\ tmp = 0
    /\ connect_result = "none"
    /\ net_pc = "idle" /\ net_rc = 0
    /\ loop_running = FALSE
    /\ calls = <<>>
    /\ client_connects = 0
    /\ sleeps = 0
    /\ ncalls = 0
    /\ conn_state = "Disconnected"
    /\ call_state = "Disconnected"
    /\ outcome = "none"
    /\ success_seen = FALSE
    /\ doubled_since_success = FALSE
    /\ hist = <<>>
    /\ mpc = "create_jwt"
    /\ \E p \in JwtProjects :
          args = [project_id |-> p, cloud_region |-> <<"us-central1">>,
                  registry_id |-> <<"r">>, device_id |-> <<"d">>, num_messages |-> 0]
    /\ i = 0
    /\ net_payload = <<>>
    /\ issued_since_on_connect = 0
    /\ clock \in 0..MaxClockTicks
    /\ jwt_pc = "read_iat"
    /\ token = no_token

\* The wall clock advances while create_jwt runs.
jwt_tick ==
    /\ jwt_pc \in {"read_iat", "read_exp", "encode"}
    /\ clock < MaxClockTicks
    /\ clock' = clock + 1
    /\ UNCHANGED <<jwt_pc, token, non_jwt_vars>>

\* Line 49: "iat": datetime.datetime.utcnow().
jwt_read_iat ==
    /\ jwt_pc = "read_iat"
    /\ token' = [token EXCEPT !.iat = clock]
    /\ jwt_pc' = "read_exp"
    /\ UNCHANGED <<clock, non_jwt_vars>>

\* Lines 50-51: "exp": a second utcnow() plus timedelta(minutes=60); "aud".
jwt_read_exp ==
    /\ jwt_pc = "read_exp"
    /\ token' = [token EXCEPT !.exp = clock + TokenLifetimeMinutes * 60 * TicksPerSecond,
                              !.aud = args.project_id]
    /\ jwt_pc' = "encode"
    /\ UNCHANGED <<clock, non_jwt_vars>>

\* Lines 53-57: read the key file (open raises when it cannot be read) and
\* jwt.encode, which stores iat and exp as whole seconds.
jwt_encode ==
    /\ jwt_pc = "encode"
    /\ \E readable \in BOOLEAN :
          IF readable
          THEN /\ token' = [iat |-> token.iat \div TicksPerSecond,
                            exp |-> token.exp \div TicksPerSecond,
                            aud |-> token.aud]
               /\ jwt_pc' = "done"
          ELSE /\ token' = no_token
               /\ jwt_pc' = "raised"
    /\ UNCHANGED <<clock, non_jwt_vars>>

NextJwt ==
    \/ jwt_tick
    \/ jwt_read_iat
    \/ jwt_read_exp
    \/ jwt_encode

SpecJwt == InitJwt /\ [][NextJwt]_vars

---------------------------------------------------------------------------
(* SpecIdentity: the identity round trip of lines 344-347 and 320, over
   identifiers that may hold '/' *)

\* Longest identifier tried.
MaxIdLen == 2

\* The characters identifiers are made of: one ordinary character and '/'.
IdChars == {"a", Slash}

\* Every string of at most MaxIdLen characters, the empty one included.
IdStrings == UNION {[1..n -> IdChars] : n \in 0..MaxIdLen}

InitIdentity ==
    /\ args \in [project_id : IdStrings, cloud_region : IdStrings,
                  registry_id : IdStrings, device_id : IdStrings,
                  num_messages : {0}]
    /\ device = no_device
    /\ should_backoff = FALSE
    /\ min_backoff_time = 0
    /\ pc = "idle"
    /\ delay_base = 0 /\ delay_ms = 0 /\ tmp = 0
    /\ connect_result = "none"
    /\ net_pc = "idle" /\ net_rc = 0
    /\ loop_running = FALSE
    /\ calls = <<>>
    /\ client_connects = 0
    /\ sleeps = 0
    /\ ncalls = 0
    /\ conn_state = "Disconnected"
    /\ call_state = "Disconnected"
    /\ outcome = "none"
    /\ success_seen = FALSE
    /\ doubled_since_success = FALSE
    /\ hist = <<>>
    /\ mpc = "start"
    /\ i = 0
    /\ net_payload = <<>>
    /\ issued_since_on_connect = 0
    /\ clock = 0 /\ jwt_pc = "done" /\ token = no_token

NextIdentity == managed_device_enter

SpecIdentity == InitIdentity /\ [][NextIdentity]_vars

---------------------------------------------------------------------------
(* Properties *)

\* The foreground thread executes the statement at position p in this step.
runs(p) == pc = p /\ pc' # p

\* on_connect finishes in this step (its last statement, line 190, runs).
on_connect_returns == net_pc = "on_connect_190" /\ net_pc' = "idle"

RECURSIVE pow2(_)
pow2(n) == IF n = 0 THEN 1 ELSE 2 * pow2(n - 1)

\* C1: a connect call that finds should-backoff true and min-backoff above
\* MAX_BACKOFF_TIME gives up: both tests pass straight through to the return,
\* no broker connect is issued, nothing is slept, and the two backoff fields
\* keep their values.
C1_GiveUpLeavesEverything ==
    [][/\ (runs("check_backoff") /\ should_backoff
             /\ min_backoff_time > MAX_BACKOFF_TIME)
            => /\ pc' = "check_giveup"
               /\ UNCHANGED <<calls, client_connects, sleeps, backoff_vars>>
       /\ (runs("check_giveup") /\ min_backoff_time > MAX_BACKOFF_TIME)
            => /\ pc' = "idle"
               /\ outcome' = "gave_up"
               /\ UNCHANGED <<calls, client_connects, sleeps, backoff_vars>>
      ]_vars

\* C1 witness: the seventh call from a fresh device has just given up.
C1_Witness ==
    /\ outcome = "gave_up"
    /\ pc = "idle"
    /\ should_backoff
    /\ min_backoff_time = 2 * MAX_BACKOFF_TIME
    /\ client_connects = 6
    /\ sleeps = 6

\* C2: from a fresh device and as long as no successful on_connect has been
\* delivered, the Nth connect call that issues a broker connect sleeps a
\* pre-jitter delay of 2^(N-1) seconds (N - 1 broker connects have been issued
\* when it sleeps), and a call gives up only once six have been issued.
C2_DelayIsPowerOfTwo ==
    ~success_seen =>
        /\ pc = "double_read" => delay_base = pow2(client_connects)
        /\ outcome = "gave_up" => client_connects = 6

\* C3: an on_connect delivered with rc = 0 leaves min-backoff at 1 and
\* should-backoff false when it returns, whatever came before; and the first
\* backoff sleep made after it (no doubling since) lasts 1 second before
\* jitter.
C3_SuccessResetsBackoff ==
    [][/\ (on_connect_returns /\ net_rc = 0)
            => (min_backoff_time' = 1 /\ should_backoff' = FALSE)
       /\ (runs("sleep") /\ success_seen /\ ~doubled_since_success)
            => delay_base' = 1
      ]_vars

\* C3 witness: after fail, fail, succeed, fail the next connect call has
\* just slept, with a pre-jitter delay of 1 second.
C3_Witness ==
    /\ hist = <<"fail", "fail", "succeed", "fail">>
    /\ pc = "double_read"
    /\ delay_base = 1
    /\ ~doubled_since_success
    /\ client_connects >= 3

\* C4: an on_connect delivered with rc # 0 sets should-backoff and does not
\* reset the backoff time.
C4_FailedConnectBacksOff ==
    [][(on_connect_returns /\ net_rc # 0)
            => (should_backoff' = TRUE /\ min_backoff_time' = min_backoff_time)
      ]_vars

\* C5: a connect call that finds should-backoff false goes straight to the
\* broker connect call, without sleeping and without doubling min-backoff.
C5_NoBackoffConnectsAtOnce ==
    [][(runs("check_backoff") /\ ~should_backoff)
            => (pc' = "client_connect" /\ UNCHANGED <<sleeps, min_backoff_time>>)
      ]_vars

\* C8: a connect call that gave up is reported to its caller: what the caller
\* observes differs from the plain return of a call that went through.
C8_GiveUpIsReported ==
    (pc = "idle" /\ outcome = "gave_up") => connect_result # "returned"

\* C9: a connect call made while the device is Connecting or Connected issues
\* no broker connect call.
C9_NoSecondConnect ==
    [][client_connects' > client_connects => call_state = "Disconnected"]_vars

\* The client call is a subscribe or a publish.
subscribe_or_publish(c) == c.op \in {"subscribe", "publish"}

\* C6: main issues no subscribe and no publish before a successful
\* on_connect callback has been delivered.
C6_NothingBeforeConfirmation ==
    [][(Len(calls') > Len(calls) /\ subscribe_or_publish(calls'[Len(calls')]))
            => success_seen
      ]_vars

\* disconnect and then loop_stop have been called on the client.
torn_down ==
    \E a, b \in 1..Len(calls) :
        a < b /\ calls[a].op = "disconnect" /\ calls[b].op = "loop_stop"

\* C7: once managed_device has created the device, a run that ends, normally
\* or with an exception, has called disconnect and then loop_stop.
C7_TeardownOnEveryExit ==
    (mpc \in {"done", "failed"} /\ device # no_device) => torn_down

\* The telemetry publishes made so far, in order.
telemetry_published ==
    SelectSeq(calls, LAMBDA c : c.op = "publish" /\ c.topic = mqtt_telemetry_topic(args))

\* The publish main is expected to make for message k of this run.
expected_telemetry(k) ==
    [op |-> "publish",
     topic |-> <<Slash, "devices", Slash>> \o args.device_id \o <<Slash, "events">>,
     payload |-> args.registry_id \o <<Slash>> \o args.device_id
                    \o <<"-payload-", ToString(k)>>,
     qos |-> 1]

\* C10: a run with num_messages = N >= 0 that completes has published exactly
\* the payloads 1..N to the events topic, in that order, each with qos 1; and
\* at every moment of a run the telemetry published so far is payloads 1..k
\* for some k <= N.
C10_PublishesOneToN ==
    /\ Len(telemetry_published) <= IF args.num_messages > 0 THEN args.num_messages ELSE 0
    /\ \A k \in 1..Len(telemetry_published) : telemetry_published[k] = expected_telemetry(k)
    /\ (mpc = "done" /\ args.num_messages >= 0)
          => Len(telemetry_published) = args.num_messages

\* C10 witness: a run of three messages has completed and published three.
C10_Witness ==
    /\ mpc = "done"
    /\ args.num_messages = 3
    /\ Len(telemetry_published) = 3
    /\ args.registry_id = <<"r", "1">>

\* The network thread delivers on_disconnect in this step: the only step
\* that leaves both threads where they are (on_connect moves net_pc, every
\* foreground step moves pc, mpc or calls).
on_disconnect_delivered ==
    /\ net_pc = "idle" /\ net_pc' = "idle"
    /\ UNCHANGED <<aux_vars, pc, mpc, ncalls, calls, loop_running>>

\* C14: an on_disconnect delivered in any state sets should-backoff and
\* leaves min-backoff as it is, so the next connect call passes the test of
\* line 140 and sleeps the current min-backoff.
C14_DisconnectKeepsBackoffTime ==
    [][on_disconnect_delivered
            => (should_backoff' = TRUE /\ min_backoff_time' = min_backoff_time)
      ]_vars

\* C14 witness: two attempts, then an on_disconnect, then a connect call that
\* has slept the min-backoff the disconnect left alone (4 seconds).
C14_Witness ==
    /\ hist = <<"fail">>
    /\ ~success_seen
    /\ should_backoff
    /\ conn_state = "Disconnected"
    /\ pc = "double_read"
    /\ delay_base = 4
    /\ min_backoff_time = 4
    /\ client_connects = 2

\* C16 as stated: the backoff sleep lies in [min-backoff, min-backoff + 1),
\* in milliseconds, and the call then doubles min-backoff and then issues the
\* broker connect.
C16_SleepBelowNextSecond ==
    [][/\ runs("sleep")
            => /\ delay_ms' >= min_backoff_time * 1000
               /\ delay_ms' < min_backoff_time * 1000 + 1000
               /\ pc' = "double_read"
               /\ UNCHANGED <<min_backoff_time, client_connects>>
       /\ runs("double_read") => pc' = "double_write"
       /\ runs("double_write")
            => /\ min_backoff_time' = 2 * tmp
               /\ pc' = "client_connect"
               /\ UNCHANGED client_connects
       /\ runs("client_connect") => client_connects' = client_connects + 1
      ]_vars

\* C16 amended: the jitter is 0..1000 ms inclusive, so the sleep lies in
\* [min-backoff, min-backoff + 1] seconds; the order is sleep, double, connect.
C16_SleepWithinNextSecond ==
    [][/\ runs("sleep")
            => /\ delay_ms' >= min_backoff_time * 1000
               /\ delay_ms' <= min_backoff_time * 1000 + 1000
               /\ sleeps' = sleeps + 1
               /\ pc' = "double_read"
               /\ UNCHANGED <<min_backoff_time, client_connects>>
       /\ runs("double_read") => pc' = "double_write"
       /\ runs("double_write")
            => /\ min_backoff_time' = 2 * tmp
               /\ pc' = "client_connect"
               /\ UNCHANGED client_connects
       /\ runs("client_connect")
            => /\ client_connects' = client_connects + 1
               /\ sleeps = client_connects + 1
      ]_vars

\* C16 witness: a call has slept exactly one second more than min-backoff.
C16_Witness ==
    /\ pc = "double_read"
    /\ delay_base = 2
    /\ delay_ms = 3000

\* C17: the doubling of line 150 is atomic with respect to the callbacks:
\* when connect writes the doubled value, min-backoff still holds the value
\* it read, so no reset by on_connect is overwritten.
C17_DoublingIsAtomic ==
    [][runs("double_write") => min_backoff_time = tmp]_vars

\* Messages 1..n of this run, as main is expected to publish them.
RECURSIVE expected_telemetry_upto(_)
expected_telemetry_upto(n) ==
    IF n <= 0 THEN <<>> ELSE Append(expected_telemetry_upto(n - 1), expected_telemetry(n))

\* Every client call of a complete run, in the order C15 gives.
expected_calls ==
    <<client_call("connect", <<>>, <<>>, 0),
      client_call("loop_start", <<>>, <<>>, 0),
      client_call("subscribe",
                  <<Slash, "devices", Slash>> \o args.device_id \o <<Slash, "config">>,
                  <<>>, 1),
      client_call("subscribe",
                  <<Slash, "devices", Slash>> \o args.device_id
                      \o <<Slash, "commands", Slash, "#">>,
                  <<>>, 1)>>
    \o expected_telemetry_upto(args.num_messages)
    \o <<client_call("publish",
                     <<Slash, "devices", Slash>> \o args.device_id \o <<Slash, "state">>,
                     <<"Fake state">>, 0),
         client_call("disconnect", <<>>, <<>>, 0),
         client_call("loop_stop", <<>>, <<>>, 0)>>

\* C15: in every run the client calls made so far are the first calls of:
\* connect, loop_start, subscribe config (qos 1), subscribe commands (qos 1),
\* the telemetry publishes, the state publish (qos 0), disconnect, loop_stop;
\* a run that completes has made all of them, so nothing follows disconnect
\* but loop_stop.
C15_CallsInOrder ==
    /\ Len(calls) <= Len(expected_calls)
    /\ calls = SubSeq(expected_calls, 1, Len(calls))
    /\ mpc = "done" => calls = expected_calls

\* C15 witness: a run of two messages has completed with all nine calls.
C15_Witness ==
    /\ mpc = "done"
    /\ args.num_messages = 2
    /\ Len(calls) = 9
    /\ calls[Len(calls)].op = "loop_stop"

\* No component of the identity holds a '/'.
no_slash(a) ==
    \A s \in {a.project_id, a.cloud_region, a.registry_id, a.device_id} :
        \A k \in 1..Len(s) : s[k] # Slash

\* C20: for an identity whose components hold no '/', parsing the client id
\* built from it does not raise and yields a Device with the same four
\* components and the same client id, so the state topic carries the device
\* id the other topics carry.
C20_ClientIdRoundTrip ==
    no_slash(args) =>
        /\ mpc # "failed"
        /\ mpc = "connect" =>
              /\ device = new_device(args.project_id, args.cloud_region,
                                     args.registry_id, args.device_id)
              /\ client_id(device) = client_id(args)
              /\ mqtt_state_topic(device)
                    = <<Slash, "devices", Slash>> \o args.device_id \o <<Slash, "state">>

\* C20 witness: a device has been built from a '/'-free identity with a
\* two-character device id and an empty region.
C20_Witness ==
    /\ mpc = "connect"
    /\ no_slash(args)
    /\ args.device_id = <<"a", "a">>
    /\ args.cloud_region = <<>>
    /\ device.device_id = <<"a", "a">>

---------------------------------------------------------------------------
(* on_message, lines 216-235 *)

\* The network thread takes a step of the on_message being delivered.
on_message_steps ==
    \/ net_pc = "idle" /\ net_pc' \in {"on_message_230", "on_message_234", "crashed"}
    \/ net_pc \in {"on_message_230", "on_message_234"} /\ net_pc' # net_pc

\* C11: an on_message whose payload is not empty and not a document returns
\* without raising (the network thread goes on), and it leaves should_backoff,
\* min_backoff_time and the connection state as they were.
C11_MalformedIsDiscarded ==
    [][(on_message_steps /\ net_pc = "on_message_234"
            /\ json_loads_raises(net_payload))
          => (net_pc' = "idle" /\ UNCHANGED <<backoff_vars, conn_state>>)]_vars

\* C12: an on_message with an empty payload returns from line 231: json.loads is
\* never reached with it, and no step of that callback changes should_backoff,
\* min_backoff_time or the connection state, whatever the state it is delivered in.
C12_EmptyPayloadIsIgnored ==
    /\ [](net_pc = "on_message_234" => net_payload # <<>>)
    /\ [](net_pc = "on_message_230" => net_payload = <<>>)
    /\ [][(on_message_steps /\ (net_pc = "on_message_230" \/ net_pc' = "on_message_230"))
             => /\ net_pc' \in {"on_message_230", "idle"}
                /\ UNCHANGED <<backoff_vars, conn_state, pc, calls, client_connects>>]_vars

\* An empty payload is being handled while a connect call is between its read
\* and its write of the backoff time.
C12_Witness ==
    /\ net_pc = "on_message_230"
    /\ net_payload = <<>>
    /\ pc = "double_write"
    /\ should_backoff
    /\ min_backoff_time = 4

---------------------------------------------------------------------------
(* The backoff state under every interleaving *)

\* should_backoff is a boolean and min_backoff_time one of 1, 2, 4, ..., 64.
backoff_state_consistent ==
    /\ should_backoff \in BOOLEAN
    /\ min_backoff_time \in {1, 2, 4, 8, 16, 32, 64}

\* C18: the backoff state is always consistent, and at most 6 broker connect
\* calls are issued between two consecutive on_connect callbacks (or between
\* the start and the first one).
C18_AtMostSixConnects ==
    /\ backoff_state_consistent
    /\ issued_since_on_connect <= 6

\* The give-up state: backoff is required and the backoff time is past 32.
give_up_state == should_backoff /\ min_backoff_time > 32

\* C19: in the give-up state every step of a Device.connect call or of an
\* on_disconnect, on_publish, on_subscribe or on_message keeps the give-up
\* state and min_backoff_time; a Device.connect call made in it returns from
\* line 147, never sleeps and issues no broker connect.  Only the delivery of
\* an on_connect leaves the state.  (The call whose doubling produced the
\* state is still at line 151, pc = "client_connect", and issues its own
\* broker connect before it returns.)
C19_GiveUpIsAbsorbing ==
    [][(give_up_state /\ net_pc' # "on_connect_190")
          => /\ give_up_state'
             /\ min_backoff_time' = min_backoff_time
             /\ sleeps' = sleeps
             /\ pc' # pc => pc' \in {"idle", "check_backoff", "check_giveup"}
             /\ pc # "client_connect"
                   => (client_connects' = client_connects /\ calls' = calls)]_vars

\* A connect call made in the give-up state has returned without connecting,
\* and an on_subscribe is being delivered in that state.
C19_Witness ==
    /\ give_up_state
    /\ outcome = "gave_up"
    /\ pc = "idle"
    /\ net_pc = "on_subscribe_213"
    /\ min_backoff_time = 64

---------------------------------------------------------------------------
(* create_jwt, lines 43-57 *)

\* C13: a token issued by create_jwt has exp - iat = 3600 seconds exactly and
\* aud equal to the project, whenever it is issued and however the clock
\* advances between the two reads of it.
C13_TokenLivesOneHour ==
    jwt_pc = "done" => (token.exp - token.iat = 3600 /\ token.aud = args.project_id)

====
